---------------------------- MODULE Spec2Model ----------------------------
(***************************************************************************)
(* Session orchestration and persistence layer of the room-LangGraph voice *)
(* agent (v3 entrypoint, assistant graph, recording manager, GraphQL       *)
(* client) and the process-wide checkpointer of the session manager (v1).  *)
(*                                                                         *)
(* One asyncio event loop: every action is the code between two awaits.    *)
(***************************************************************************)
EXTENDS Integers, Sequences, FiniteSets, TLC

(***************************************************************************)
(* Bounds of the model.                                                    *)
(***************************************************************************)
MaxTurns == 2        \* graph invocations per session (greeting included)
MaxInput == 1        \* messages the LLM adapter passes as input of one turn
MaxItems == 2        \* conversation_item_added events per session
MaxRecords == 2      \* record ids the gateway can hand out
MaxCallers == 2      \* sessions sharing the process-wide session manager
MaxCalls == 6        \* get_checkpointer / close_session calls per process

\* timeout=10.0 of the wait for start_recording, in seconds
CaptureTimeout == 10

MaxGroups == 6       \* hyphen-delimited groups after the prefix of a room name
MaxResolves == 2     \* runs of the room-name resolution for one room

MaxList == 9         \* entries of a list of the CV analysis

\* skills_matched[:8], skills_missing[:6], strengths[:4], concerns[:4]
MatchedCap == 8
MissingCap == 6
StrengthsCap == 4
ConcernsCap == 4

\* room_id[10:], the length of "interview-"
PrefixLen == 10
\* parts[:5], the groups of a UUID
UuidParts == 5

(***************************************************************************)
(* Values.  Optional values are wrapped: Missing is an absent key (or an   *)
(* unbound name), Some(v) a present one, so that state.get(k, default)     *)
(* and a Python None keep their different meanings.                        *)
(***************************************************************************)
Missing == << >>
Some(v) == << v >>
NoneId == <<"None", 0>>
SessionId == <<"session", 1>>
RecId(n) == <<"interview", n>>
RecordIds == { RecId(n) : n \in 1..MaxRecords }
ThreadIds == {SessionId} \cup RecordIds
RoomName == "interview-room"

AppNone == << >>
AppArabic == << [job |-> [interviewLanguage |-> "Arabic"]] >>
AppDetails == {AppNone, AppArabic}

(***************************************************************************)
(* AssistantState: the channels of the graph state.  messages carries the  *)
(* reducer operator.add, every other channel is last-value.                *)
(***************************************************************************)
ScalarFields ==
  {"session_id", "current_question", "interview_status", "participant_name",
   "start_time", "last_updated", "questions_asked", "responses_received",
   "application_details", "interview_language"}

AssistantState == ScalarFields \cup {"messages"}

EmptyState ==
  [f \in AssistantState |-> Missing]

\* operator.add on two message lists
add_messages(left, right) == left \o right

\* state.get(key, default): the default only when the key is absent
StateGet(state, key, default) ==
  IF state[key] = Missing THEN default ELSE state[key][1]

\* One checkpoint write: delta is a record; keys that are no channel of
\* AssistantState are dropped, messages go through the reducer, any other
\* channel the delta names is overwritten, the rest is kept.
MergeState(state, delta) ==
  [f \in AssistantState |->
     IF f \notin DOMAIN delta THEN state[f]
     ELSE IF f = "messages" THEN add_messages(state[f], delta[f])
     ELSE Some(delta[f])]

(***************************************************************************)
(* create_initial_session_state                                            *)
(***************************************************************************)
Lower(s) == IF s = "Arabic" THEN "arabic" ELSE s

LanguageOf(app) ==
  IF app # AppNone THEN Lower(app[1].job.interviewLanguage) ELSE "english"

create_initial_session_state(meta, now, serial) ==
  [messages |-> << [role |-> "human", serial |-> serial] >>,
   session_id |-> meta.session_id,
   current_question |-> 0,
   interview_status |-> "active",
   participant_name |-> meta.participant_name,
   start_time |-> meta.start_time,
   last_updated |-> now,
   questions_asked |-> << >>,
   responses_received |-> << >>,
   application_details |-> meta.application_details,
   interview_language |-> LanguageOf(meta.application_details),
   cv_score |-> "None",
   cv_analysis_results |-> "None"]

\* call_llm returning the whole history with the new message, which the
\* reducer then appends to the history already stored
call_llm_resend(state, message, now) ==
  [messages |-> state["messages"] \o << message >>,
   last_updated |-> now,
   current_question |-> StateGet(state, "current_question", 0),
   session_id |-> StateGet(state, "session_id", <<"unknown", 0>>),
   participant_name |-> StateGet(state, "participant_name", "None"),
   interview_status |-> StateGet(state, "interview_status", "active"),
   start_time |-> StateGet(state, "start_time", -1),
   questions_asked |-> StateGet(state, "questions_asked", << >>),
   responses_received |-> StateGet(state, "responses_received", << >>),
   application_details |-> StateGet(state, "application_details", AppNone),
   interview_language |-> StateGet(state, "interview_language", "english")]

\* call_llm writing the defaults instead of the values it was given
call_llm_defaults(state, message, now) ==
  [messages |-> << message >>,
   last_updated |-> now,
   current_question |-> 0,
   session_id |-> <<"unknown", 0>>,
   participant_name |-> "None",
   interview_status |-> "active",
   start_time |-> -1,
   questions_asked |-> << >>,
   responses_received |-> << >>,
   application_details |-> AppNone,
   interview_language |-> "english"]

(***************************************************************************)
(* call_llm: the node's return value for the state it is given.  message   *)
(* is what llm.invoke returned.  A None start_time is written as -1.       *)
(***************************************************************************)
call_llm(state, message, now) ==
  [messages |-> << message >>,
   last_updated |-> now,
   current_question |-> StateGet(state, "current_question", 0),
   session_id |-> StateGet(state, "session_id", <<"unknown", 0>>),
   participant_name |-> StateGet(state, "participant_name", "None"),
   interview_status |-> StateGet(state, "interview_status", "active"),
   start_time |-> StateGet(state, "start_time", -1),
   questions_asked |-> StateGet(state, "questions_asked", << >>),
   responses_received |-> StateGet(state, "responses_received", << >>),
   application_details |-> StateGet(state, "application_details", AppNone),
   interview_language |-> StateGet(state, "interview_language", "english")]

\* the two branches of the choice of thread_id exchanged
ThreadIdOf_swapped(iid, sid) == IF iid # NoneId THEN sid ELSE iid

\* thread_id = interview_id if interview_id else session_id
ThreadIdOf(iid, sid) == IF iid # NoneId THEN iid ELSE sid


\* The record id the gateway answers a createInterview with: a new record
\* gets the first id not yet handed out.
FreshId(interviews) ==
  RecId(Cardinality(interviews) + 1)

\* the counter passed on without the increment
NextSequence_stale(counter) == counter

\* The sequence number of the next transcript entry: sequence_counter += 1
NextSequence(counter) == counter + 1

\* speaker = "AI" if role == "assistant" else "CANDIDATE"
SpeakerOf(role) == IF role = "assistant" THEN "AI" ELSE "CANDIDATE"

\* text_content.strip() == ""
IsBlank(text) == text \in {"", " "}

(***************************************************************************)
(* Room names are sequences of characters.  entrypoint, lines 42-50: the   *)
(* application id is read off the room name.                               *)
(***************************************************************************)
InterviewPrefix == <<"i", "n", "t", "e", "r", "v", "i", "e", "w", "-">>

\* str.startswith
StartsWith(str, prefix) ==
  Len(str) >= Len(prefix) /\ SubSeq(str, 1, Len(prefix)) = prefix

\* str[n:]
Drop(str, n) == SubSeq(str, n + 1, Len(str))

\* str.split(sep): always at least one part, empty parts kept
RECURSIVE Split(_, _)
Split(str, sep) ==
  IF \A i \in 1..Len(str) : str[i] # sep
    THEN << str >>
    ELSE LET i == CHOOSE k \in 1..Len(str) :
                    str[k] = sep /\ \A j \in 1..(k - 1) : str[j] # sep
         IN  << SubSeq(str, 1, i - 1) >> \o Split(Drop(str, i), sep)

\* sep.join(parts)
RECURSIVE Join(_, _)
Join(parts, sep) ==
  IF parts = << >> THEN << >>
  ELSE IF Len(parts) = 1 THEN parts[1]
  ELSE parts[1] \o << sep >> \o Join(Tail(parts), sep)

NoApplicationId == << >>

\* the five groups taken whatever they hold
ApplicationIdOf_anywhere(room) ==
  LET parts == Split(room, "-")
  IN  IF Len(parts) >= UuidParts
        THEN Some(Join(SubSeq(parts, 1, UuidParts), "-"))
        ELSE NoApplicationId

\* lines 43-49
ApplicationIdOf(room) ==
  IF StartsWith(room, InterviewPrefix)
    THEN LET parts == Split(Drop(room, PrefixLen), "-")
         IN  IF Len(parts) >= UuidParts
               THEN Some(Join(SubSeq(parts, 1, UuidParts), "-"))
               ELSE NoApplicationId
    ELSE NoApplicationId

\* graphql_client.py, lines 161-178: the id read off the room name where
\* the interview is created, the room name itself when there is none
extract_interview_id_from_room_name(room) ==
  IF StartsWith(room, InterviewPrefix)
    THEN LET parts == Split(Drop(room, PrefixLen), "-")
         IN  IF Len(parts) >= UuidParts
               THEN Join(SubSeq(parts, 1, UuidParts), "-")
               ELSE room
    ELSE room

\* The room names the model tries: a prefix, then up to MaxGroups groups
\* joined by hyphens.
Rep(c, n) == [i \in 1..n |-> c]

Groups ==
  {Rep("a", 8), Rep("1", 4), Rep("b", 12), <<"r", "o", "o", "m">>}

Prefixes == {InterviewPrefix, <<"r", "o", "o", "m", "-">>}

RoomNames ==
  { p \o Join(gs, "-") :
      p \in Prefixes, gs \in UNION { [1..k -> Groups] : k \in 0..MaxGroups } }

\* interview-<uuid>-1, the room of the session model
DefaultRoom ==
  InterviewPrefix \o
    Join(<< Rep("a", 8), Rep("1", 4), Rep("1", 4), Rep("1", 4), Rep("b", 12), <<"1">> >>, "-")

(***************************************************************************)
(* Python values of the application context: every value carries its     *)
(* type, a dict is a function on the keys it has.                          *)
(***************************************************************************)
Null == [t |-> "null"]
Str(x) == [t |-> "str", s |-> x]
Num(x) == [t |-> "num", n |-> x]
List(seq) == [t |-> "list", l |-> seq]
Dict(rec) == [t |-> "dict", d |-> rec]
Raised == [t |-> "raised"]

\* bool(value)
Truthy(val) ==
  CASE val.t = "null" -> FALSE
    [] val.t = "str" -> val.s # ""
    [] val.t = "num" -> val.n # 0
    [] val.t = "list" -> val.l # << >>
    [] val.t = "dict" -> DOMAIN val.d # {}
    [] OTHER -> TRUE

\* dict.get(key, default)
DictGet(dict, key, default) ==
  IF key \in DOMAIN dict.d THEN dict.d[key] ELSE default

\* a or b
PyOr(a, b) == IF Truthy(a) THEN a ELSE b

\* list[:n] kept whole
Slice_all(list, n) == list

\* list[:n]
Slice(list, n) ==
  IF Len(list.l) <= n THEN list ELSE List(SubSeq(list.l, 1, n))

(***************************************************************************)
(* GraphQLClient.execute_query and get_application_details.  A reply of    *)
(* the gateway is unreachable (the request raises) or a response with a    *)
(* status and a JSON body.                                                 *)
(***************************************************************************)
\* the body read without a look at the status or at the errors
execute_query_unchecked(reply) ==
  IF reply.tag = "unreachable" THEN Null
  ELSE IF "data" \in DOMAIN reply.body THEN reply.body["data"]
  ELSE Null

\* lines 27-60: None unless the status is 200 and the body has no errors
execute_query(reply) ==
  IF reply.tag = "unreachable" THEN Null
  ELSE IF reply.status # 200 THEN Null
  ELSE IF "errors" \in DOMAIN reply.body THEN Null
  ELSE IF "data" \in DOMAIN reply.body THEN reply.body["data"]
  ELSE Null

\* lines 351-427: the application, or None; the log line of line 419
\* subscripts job and company, and the TypeError of a null one is caught
get_application_details(result) ==
  IF Truthy(result) /\ Truthy(DictGet(result, "application", Null))
    THEN LET application == result.d["application"]
         IN  IF /\ DictGet(application, "job", Null).t = "dict"
                /\ DictGet(application.d["job"], "company", Null).t = "dict"
                /\ "title" \in DOMAIN application.d["job"].d
                /\ "name" \in DOMAIN application.d["job"].d["company"].d
               THEN application
               ELSE Null
    ELSE Null

(***************************************************************************)
(* The completion notice.  GraphQLClient.complete_interview reads the     *)
(* reply of the completeInterview mutation, RecordingManager's wrapper     *)
(* turns every exception into False.                                       *)
(***************************************************************************)
Completed(interview) ==
  [tag |-> "response", status |-> 200,
   body |-> [k \in {"data"} |-> Dict([k2 \in {"completeInterview"} |-> interview])]]

\* the gateway confirms, is unreachable, answers with another status, with
\* errors, with no interview, or with an interview that has no id
CompletionReplies ==
  { Completed(Dict([id |-> Str("rec"), status |-> Str("COMPLETED")])),
    [tag |-> "unreachable"],
    [tag |-> "response", status |-> 500, body |-> << >>],
    [tag |-> "response", status |-> 200, body |-> [k \in {"errors"} |-> List(<< 1 >>)]],
    Completed(Null),
    Completed(Dict([status |-> Str("COMPLETED")])) }

\* graphql_client.py, lines 132-159
GraphQLClient_complete_interview(reply) ==
  LET result == execute_query(reply)
  IN  IF Truthy(result) /\ Truthy(DictGet(result, "completeInterview", Null))
        THEN IF "id" \in DOMAIN result.d["completeInterview"].d
               THEN "True"
               ELSE "Raised"
        ELSE "False"

\* the client's answer passed on, exceptions included
complete_interview_unguarded(reply) == GraphQLClient_complete_interview(reply)

\* recording_manager.py, lines 235-245
complete_interview(reply) ==
  IF GraphQLClient_complete_interview(reply) = "Raised"
    THEN "False"
    ELSE GraphQLClient_complete_interview(reply)

(***************************************************************************)
(* call_llm, lines 16-91: the system prompt built from the application     *)
(* details of the state.  A prompt is the record of what the text is made  *)
(* of; an attribute read off None gives Raised.                            *)
(***************************************************************************)
\* a part of the CV summary that is not appended
NoPart == Null

NoCv ==
  [score |-> NoPart, experience |-> NoPart, matched |-> NoPart,
   missing |-> NoPart, strengths |-> NoPart, concerns |-> NoPart,
   recommendation |-> NoPart, text |-> NoPart]

\* line 18
DefaultPrompt ==
  [t |-> "prompt", base |-> "default", language |-> "none", directive |-> "none",
   company |-> Null, cv |-> NoCv]

\* lines 40-58: the part of a list key, sliced, when the value is a
\* non-empty list
ListPart(results, key, cap) ==
  LET val == DictGet(results, key, Null)
  IN  IF Truthy(val) /\ val.t = "list" THEN Slice(val, cap) ELSE NoPart

\* lines 37-38 and 60-61: the part of a key whose value is truthy
TruthyPart(results, key) ==
  LET val == DictGet(results, key, Null)
  IN  IF Truthy(val) THEN val ELSE NoPart

\* lines 28-64
CvSummaryParts(application_details) ==
  LET cv_score == PyOr(PyOr(DictGet(application_details, "cvScore", Null),
                            DictGet(application_details, "cv_score", Null)),
                       DictGet(application_details, "cvAnalysisScore", Null))
      cv_analysis_results ==
        PyOr(DictGet(application_details, "cvAnalysisResults", Null),
             DictGet(application_details, "cv_analysis_results", Null))
      score == IF cv_score.t # "null" THEN cv_score ELSE NoPart
  IN  IF Truthy(cv_analysis_results) /\ cv_analysis_results.t = "dict"
        THEN [score |-> score,
              experience |-> TruthyPart(cv_analysis_results, "experience_summary"),
              matched |-> ListPart(cv_analysis_results, "skills_matched", MatchedCap),
              missing |-> ListPart(cv_analysis_results, "skills_missing", MissingCap),
              strengths |-> ListPart(cv_analysis_results, "strengths", StrengthsCap),
              concerns |-> ListPart(cv_analysis_results, "concerns", ConcernsCap),
              recommendation |-> TruthyPart(cv_analysis_results, "recommendation"),
              text |-> NoPart]
      ELSE IF Truthy(cv_analysis_results)
        THEN [NoCv EXCEPT !.score = score, !.text = cv_analysis_results]
      ELSE [NoCv EXCEPT !.score = score]

\* line 24: job_details.get('interviewLanguage', 'english').lower()
InterviewLanguageOf(job_details) ==
  LET val == DictGet(job_details, "interviewLanguage", Str("english"))
  IN  IF val.t = "str" THEN Str(Lower(val.s)) ELSE Raised

\* line 25: job_details.get('company', {}).get('name', 'the company')
CompanyNameOf(job_details) ==
  LET company == DictGet(job_details, "company", Dict(<< >>))
  IN  IF company.t = "dict"
        THEN DictGet(company, "name", Str("the company"))
        ELSE Raised

\* lines 17-91
SystemPromptOf(application_details) ==
  IF ~ (Truthy(application_details)
        /\ Truthy(DictGet(application_details, "job", Null)))
    THEN DefaultPrompt
  ELSE
    LET job_details == application_details.d["job"]
        interview_language == InterviewLanguageOf(job_details)
        company_name == CompanyNameOf(job_details)
        interview_prompt == DictGet(job_details, "interviewPrompt", Null)
        language == IF interview_language.s = "arabic" THEN "arabic" ELSE "english"
    IN  IF job_details.t # "dict" THEN Raised
        ELSE IF interview_language = Raised THEN Raised
        ELSE IF company_name = Raised THEN Raised
        ELSE IF Truthy(interview_prompt) /\ ~ IsBlank(interview_prompt.s)
          \* line 72: str.replace with a name that is not a string raises
          THEN IF company_name.t # "str" THEN Raised
               \* lines 75-78: the directive appended to the template
               ELSE [t |-> "prompt", base |-> "custom", language |-> language,
                     directive |-> language,
                     company |-> company_name,
                     cv |-> CvSummaryParts(application_details)]
        \* lines 81-87: the generic template in Arabic or in English, with
        \* nothing appended
        ELSE [t |-> "prompt", base |-> "generic", language |-> language,
              directive |-> "none",
              company |-> company_name,
              cv |-> CvSummaryParts(application_details)]

(***************************************************************************)
(* State.                                                                  *)
(***************************************************************************)
VARIABLES
  pc,                 \* position of entrypoint / cleanup
  session_metadata,   \* SessionMetadata of the session
  video_url_to_save,  \* url handed to save_video_to_backend
  interview_id,       \* entrypoint's interview_id (nonlocal for the closures)
  thread_id,          \* entrypoint's thread_id, Unbound before line 102
  sequence_counter,   \* entrypoint's sequence_counter
  store,              \* checkpointer: thread id -> AssistantState values
  turn,               \* graph invocations started
  turn_pc,            \* "idle" or "generating"
  commits,            \* turns whose node output has been written
  pending,            \* conversation items the session has yet to announce
  queue,              \* handler tasks created, not yet run (FIFO)
  inflight,           \* handler tasks awaiting the gateway
  gw_interviews,      \* gateway: interview records
  gw_transcripts,     \* gateway: transcript entries
  gw_completed,       \* gateway: interviews marked completed
  assigned,           \* sequence numbers in the order they were assigned
  items,              \* conversation_item_added events so far
  now,                \* datetime.now(), a logical clock
  serial,             \* messages created so far
  checkpointer,       \* session_manager._checkpointer
  checkpointer_context, \* session_manager._checkpointer_context
  callers,            \* get_checkpointer / close_session calls in progress
  probes,             \* connection probes made by get_checkpointer
  setup_done,         \* savers whose setup() has finished
  returned,           \* what get_checkpointer has returned, call by call
  calls,              \* calls of the session manager so far
  closes,             \* close_session calls that closed a connection
  capture_wait,       \* seconds wait_for has waited for start_recording;
                      \* CaptureTimeout after a timeout, 0 after any answer
  save_attempts,      \* save_video_to_backend calls: where, and the id returned
  complete_attempts,  \* interview ids complete_interview was called with
  turn_errors,        \* graph invocations that raised, and what raised
  recording_url,      \* recording_manager.recording_url
  room_id,            \* entrypoint's room_id, a sequence of characters
  resolved,           \* what each run of lines 40-57 for the room resolved
  gateway_reply,      \* what the gateway answers the application query with
  application_details, \* what get_application_details returned
  system_prompt,      \* the system prompt call_llm assembled
  create_input        \* the input of the createInterview mutation

sessionVars ==
  << pc, session_metadata, video_url_to_save, interview_id, thread_id,
     sequence_counter, store, turn, turn_pc, commits, pending, queue,
     inflight, gw_interviews, gw_transcripts, gw_completed, assigned, items,
     now, serial, capture_wait, save_attempts, complete_attempts,
     turn_errors, recording_url >>

managerVars ==
  << checkpointer, checkpointer_context, callers, probes, setup_done,
     returned, calls, closes >>

contextVars ==
  << room_id, resolved, gateway_reply, application_details, system_prompt,
     create_input >>

vars == << sessionVars, managerVars, contextVars >>

Unbound == <<"unbound", 0>>

\* The state a previous session of the same room left under its record id:
\* the initial write and one committed turn.
PriorMeta ==
  [session_id |-> RecId(1), participant_name |-> "None", start_time |-> 0,
   application_details |-> AppNone]

PriorState ==
  LET s0 == MergeState(EmptyState, create_initial_session_state(PriorMeta, 0, 1))
  IN  MergeState(s0, call_llm(s0, [role |-> "ai", serial |-> 2], 1))

NoCheckpointer == <<"None", 0>>
Callers == 1..MaxCallers
Saver(kind, n) == << kind, n >>

SessionInit ==
  /\ pc = "session"
  /\ session_metadata = [session_id |-> SessionId, participant_name |-> "None",
                         start_time |-> 0, application_details |-> AppNone]
  /\ video_url_to_save = "generated"
  /\ interview_id = NoneId
  /\ thread_id = Unbound
  /\ sequence_counter = 0
  /\ turn = 0
  /\ turn_pc = "idle"
  /\ commits = {}
  /\ pending = {}
  /\ queue = << >>
  /\ inflight = {}
  /\ gw_transcripts = {}
  /\ gw_completed = {}
  /\ assigned = << >>
  /\ items = 0
  /\ capture_wait = 0
  /\ save_attempts = << >>
  /\ complete_attempts = {}
  /\ turn_errors = {}
  /\ recording_url = "None"
  \* either nothing is known of the room, or an earlier session of the room
  \* left a record at the gateway and its state in the persistent store
  /\ \/ /\ gw_interviews = {}
        /\ store = [t \in ThreadIds |-> EmptyState]
        /\ now = 0
        /\ serial = 0
     \/ /\ gw_interviews = {[id |-> RecId(1), roomId |-> RoomName]}
        /\ store = [t \in ThreadIds |-> IF t = RecId(1) THEN PriorState ELSE EmptyState]
        /\ now = 2
        /\ serial = 2

ManagerInit ==
  /\ checkpointer = NoCheckpointer
  /\ checkpointer_context = NoCheckpointer
  /\ callers = [c \in Callers |-> [pc |-> "idle", ctx |-> 0]]
  /\ probes = 0
  /\ setup_done = {}
  /\ returned = {}
  /\ calls = 0
  /\ closes = 0

\* before the application query and before the first call_llm
NotFetched == [tag |-> "not fetched"]
NotRun == [tag |-> "not run"]
NotSent == [tag |-> "not sent"]
Unreachable == [tag |-> "unreachable"]

ContextInit ==
  /\ room_id = DefaultRoom
  /\ resolved = << >>
  /\ gateway_reply = Unreachable
  /\ application_details = NotFetched
  /\ system_prompt = NotRun
  /\ create_input = NotSent

Init == SessionInit /\ ManagerInit /\ ContextInit


(***************************************************************************)
(* entrypoint, one action per await.                                       *)
(***************************************************************************)

\* get_or_create_session registering an interview for the room
GetOrCreateSession_creates(app) ==
  /\ pc = "session"
  /\ session_metadata' =
       [session_id |-> SessionId,
        participant_name |-> IF app = AppNone THEN "None" ELSE "Sam",
        start_time |-> now,
        application_details |-> app]
  /\ gw_interviews' =
       gw_interviews \cup {[id |-> FreshId(gw_interviews), roomId |-> RoomName]}
  /\ now' = now + 1
  /\ pc' = "record"
  /\ UNCHANGED << video_url_to_save, interview_id, thread_id, sequence_counter,
                  store, turn, turn_pc, commits, pending, queue, inflight,
                  gw_transcripts, gw_completed, assigned, items,
                  serial >>
  /\ UNCHANGED << capture_wait, save_attempts, complete_attempts, turn_errors, recording_url >>
  /\ UNCHANGED managerVars
  /\ UNCHANGED contextVars

\* get_or_create_session: a new session with the application's details
GetOrCreateSession(app) ==
  /\ pc = "session"
  /\ session_metadata' =
       [session_id |-> SessionId,
        participant_name |-> IF app = AppNone THEN "None" ELSE "Sam",
        start_time |-> now,
        application_details |-> app]
  /\ now' = now + 1
  /\ pc' = "record"
  /\ UNCHANGED << video_url_to_save, interview_id, thread_id, sequence_counter,
                  store, turn, turn_pc, commits, pending, queue, inflight,
                  gw_interviews, gw_transcripts, gw_completed, assigned, items,
                  serial >>
  /\ UNCHANGED << capture_wait, save_attempts, complete_attempts, turn_errors, recording_url >>
  /\ UNCHANGED managerVars
  /\ UNCHANGED contextVars

\* the wait for start_recording without a timeout
RecordingTimedOut_never ==
  /\ pc = "record"
  /\ FALSE
  /\ UNCHANGED vars

\* asyncio.wait_for(start_recording(...), timeout=10.0): a second passes
\* with start_recording still suspended
RecordingTick ==
  /\ pc = "record"
  /\ capture_wait < CaptureTimeout
  /\ capture_wait' = capture_wait + 1
  /\ UNCHANGED << pc, session_metadata, video_url_to_save, interview_id,
                  thread_id, sequence_counter, store, turn, turn_pc, commits,
                  pending, queue, inflight, gw_interviews, gw_transcripts,
                  gw_completed, assigned, items, now, serial >>
  /\ UNCHANGED << save_attempts, complete_attempts, turn_errors, recording_url >>
  /\ UNCHANGED managerVars
  /\ UNCHANGED contextVars

\* the timeout has run out: wait_for cancels start_recording and raises
\* TimeoutError, line 81 catches it, the generated url stays
RecordingTimedOut ==
  /\ pc = "record"
  /\ capture_wait = CaptureTimeout
  /\ pc' = "save"
  /\ UNCHANGED << session_metadata, video_url_to_save, interview_id, thread_id,
                  sequence_counter, store, turn, turn_pc, commits, pending,
                  queue, inflight, gw_interviews, gw_transcripts, gw_completed,
                  assigned, items, now, serial >>
  /\ UNCHANGED << capture_wait, save_attempts, complete_attempts, turn_errors, recording_url >>
  /\ UNCHANGED managerVars
  /\ UNCHANGED contextVars

\* start_recording returned a url within the timeout: it replaces the
\* generated one
RecordingStarted ==
  /\ pc = "record"
  /\ capture_wait < CaptureTimeout
  /\ recording_url' = "livekit"
  /\ video_url_to_save' = recording_url'
  /\ capture_wait' = 0
  /\ pc' = "save"
  /\ UNCHANGED << session_metadata, interview_id, thread_id, sequence_counter,
                  store, turn, turn_pc, commits, pending, queue, inflight,
                  gw_interviews, gw_transcripts, gw_completed, assigned, items,
                  now, serial >>
  /\ UNCHANGED << save_attempts, complete_attempts, turn_errors >>
  /\ UNCHANGED managerVars
  /\ UNCHANGED contextVars

\* the result of start_recording taken as the url whatever it is
RecordingUnavailable_takes_result ==
  /\ pc = "record"
  /\ capture_wait < CaptureTimeout
  /\ capture_wait' = 0
  /\ video_url_to_save' = recording_url
  /\ pc' = "save"
  /\ UNCHANGED << session_metadata, interview_id, thread_id,
                  sequence_counter, store, turn, turn_pc, commits, pending,
                  queue, inflight, gw_interviews, gw_transcripts, gw_completed,
                  assigned, items, now, serial >>
  /\ UNCHANGED << save_attempts, complete_attempts, turn_errors, recording_url >>
  /\ UNCHANGED managerVars
  /\ UNCHANGED contextVars

\* start_recording returned None or raised within the timeout: the
\* generated url stays
RecordingUnavailable ==
  /\ pc = "record"
  /\ capture_wait < CaptureTimeout
  /\ capture_wait' = 0
  /\ pc' = "save"
  /\ UNCHANGED << session_metadata, video_url_to_save, interview_id, thread_id,
                  sequence_counter, store, turn, turn_pc, commits, pending,
                  queue, inflight, gw_interviews, gw_transcripts, gw_completed,
                  assigned, items, now, serial >>
  /\ UNCHANGED << save_attempts, complete_attempts, turn_errors, recording_url >>
  /\ UNCHANGED managerVars
  /\ UNCHANGED contextVars

(***************************************************************************)
(* save_video_to_backend -> save_video_url_to_interview ->                 *)
(* create_interview_with_video: one createInterview mutation, no lookup.   *)
(* The gateway answers with a new record, with the record it already holds *)
(* for the room, or not at all.  The result is (interviews', returned id). *)
(***************************************************************************)
SaveCreatesNew(interviews, room) ==
  << interviews \cup {[id |-> FreshId(interviews), roomId |-> room]},
     FreshId(interviews) >>

SaveReturnsExisting(interviews, rec) == << interviews, rec.id >>

SaveFails(interviews) == << interviews, NoneId >>

save_video_to_backend(interviews, room) ==
  {SaveFails(interviews)}
    \cup (IF Cardinality(interviews) < MaxRecords
            THEN {SaveCreatesNew(interviews, room)} ELSE {})
    \cup {SaveReturnsExisting(interviews, rec) :
            rec \in {r \in interviews : r.roomId = room}}

\* lines 84-105: the save at setup and the choice of thread_id
SaveVideo ==
  /\ pc = "save"
  /\ \E res \in save_video_to_backend(gw_interviews, RoomName) :
       /\ gw_interviews' = res[1]
       /\ interview_id' = res[2]
       /\ thread_id' = ThreadIdOf(res[2], SessionId)
       /\ save_attempts' = Append(save_attempts, [phase |-> "setup", id |-> res[2], url |-> video_url_to_save])
  /\ pc' = "workflow"
  /\ UNCHANGED << session_metadata, video_url_to_save, sequence_counter, store,
                  turn, turn_pc, commits, pending, queue, inflight,
                  gw_transcripts, gw_completed, assigned, items, now, serial >>
  /\ UNCHANGED << capture_wait, complete_attempts, turn_errors, recording_url >>
  /\ UNCHANGED managerVars
  /\ UNCHANGED contextVars

\* lines 108-113: create_workflow obtains the checkpointer (one caller, so
\* get_checkpointer runs through), then session_metadata takes thread_id
CreateWorkflow(kind) ==
  /\ pc = "workflow"
  /\ checkpointer' = Saver(kind, probes + 1)
  /\ checkpointer_context' =
       IF kind = "postgres" THEN Saver("context", probes + 1) ELSE NoCheckpointer
  /\ setup_done' =
       IF kind = "postgres" THEN setup_done \cup {checkpointer'} ELSE setup_done
  /\ probes' = probes + 1
  /\ session_metadata' = [session_metadata EXCEPT !.session_id = thread_id]
  /\ pc' = "init"
  /\ UNCHANGED << video_url_to_save, interview_id, thread_id, sequence_counter,
                  store, turn, turn_pc, commits, pending, queue, inflight,
                  gw_interviews, gw_transcripts, gw_completed, assigned, items,
                  now, serial >>
  /\ UNCHANGED << capture_wait, save_attempts, complete_attempts, turn_errors, recording_url >>
  /\ UNCHANGED << callers, returned, calls, closes >>
  /\ UNCHANGED contextVars

\* line 124: aupdate_state(config_for_init, initial_state) writes the
\* initial state through the channels of the thread, whatever is stored
InitState ==
  /\ pc = "init"
  /\ store' = [store EXCEPT ![thread_id] =
                 MergeState(@, create_initial_session_state(session_metadata, now, serial + 1))]
  /\ serial' = serial + 1
  /\ now' = now + 1
  /\ pc' = "start"
  /\ UNCHANGED << session_metadata, video_url_to_save, interview_id, thread_id,
                  sequence_counter, turn, turn_pc, commits, pending, queue,
                  inflight, gw_interviews, gw_transcripts, gw_completed,
                  assigned, items >>
  /\ UNCHANGED << capture_wait, save_attempts, complete_attempts, turn_errors, recording_url >>
  /\ UNCHANGED managerVars
  /\ UNCHANGED contextVars

\* lines 126-127: aupdate_state raised, the session goes on without it
InitStateFailed ==
  /\ pc = "init"
  /\ pc' = "start"
  /\ UNCHANGED << session_metadata, video_url_to_save, interview_id, thread_id,
                  sequence_counter, store, turn, turn_pc, commits, pending,
                  queue, inflight, gw_interviews, gw_transcripts, gw_completed,
                  assigned, items, now, serial >>
  /\ UNCHANGED << capture_wait, save_attempts, complete_attempts, turn_errors, recording_url >>
  /\ UNCHANGED managerVars
  /\ UNCHANGED contextVars

\* lines 188-197: handlers registered, session.start returned
SessionStart ==
  /\ pc = "start"
  /\ pc' = "greeting"
  /\ UNCHANGED << session_metadata, video_url_to_save, interview_id, thread_id,
                  sequence_counter, store, turn, turn_pc, commits, pending,
                  queue, inflight, gw_interviews, gw_transcripts, gw_completed,
                  assigned, items, now, serial >>
  /\ UNCHANGED << capture_wait, save_attempts, complete_attempts, turn_errors, recording_url >>
  /\ UNCHANGED managerVars
  /\ UNCHANGED contextVars

\* lines 215-264: generate_reply's greeting is over, cleanup is registered
RegisterCleanup ==
  /\ pc = "greeting"
  /\ turn >= 1
  /\ turn_pc = "idle"
  /\ pc' = "running"
  /\ UNCHANGED << session_metadata, video_url_to_save, interview_id, thread_id,
                  sequence_counter, store, turn, turn_pc, commits, pending,
                  queue, inflight, gw_interviews, gw_transcripts, gw_completed,
                  assigned, items, now, serial >>
  /\ UNCHANGED << capture_wait, save_attempts, complete_attempts, turn_errors, recording_url >>
  /\ UNCHANGED managerVars
  /\ UNCHANGED contextVars


(***************************************************************************)
(* A conversation turn: the LLM adapter invokes the compiled graph under   *)
(* thread_id.  The input is written to the thread, the llm node runs, its  *)
(* return value is written.                                                *)
(***************************************************************************)
InputMessages(k, first) ==
  [i \in 1..k |-> [role |-> "human", serial |-> first + i]]

\* the greeting (generate_reply) is the first turn and has no user item
TurnStart(k) ==
  /\ pc \in {"greeting", "running"}
  /\ pc = "greeting" => turn = 0
  /\ turn_pc = "idle"
  /\ turn < MaxTurns
  /\ turn' = turn + 1
  /\ turn_pc' = "generating"
  /\ store' = [store EXCEPT ![thread_id] =
                 MergeState(@, [messages |-> InputMessages(k, serial)])]
  /\ serial' = serial + k
  /\ pending' = IF pc = "running"
                  THEN pending \cup {[turn |-> turn + 1, role |-> "user"]}
                  ELSE pending
  /\ UNCHANGED << pc, session_metadata, video_url_to_save, interview_id,
                  thread_id, sequence_counter, commits, queue, inflight,
                  gw_interviews, gw_transcripts, gw_completed, assigned, items,
                  now >>
  /\ UNCHANGED << capture_wait, save_attempts, complete_attempts, turn_errors, recording_url >>
  /\ UNCHANGED managerVars
  /\ UNCHANGED contextVars

\* graph.py, lines 18-34: the graph enters at the llm node, and its only
\* edge is the conditional one that maps "end" to END
END == "__end__"

EntryPoint == "llm"

ConditionalEdges == [decision \in {"end"} |-> END]

\* assistant_node.py, lines 120-123
decide_next_action(state) == "end"

\* an edge from the llm node back to itself
NextNode_loops(node, state) == EntryPoint

\* the node that follows the llm node
NextNode(node, state) == ConditionalEdges[decide_next_action(state)]

\* llm.invoke returned: the node's return value is written to the thread,
\* and the invocation is over when the next node is END
TurnCommit ==
  /\ turn_pc = "generating"
  /\ store' = [store EXCEPT ![thread_id] =
                 MergeState(@, call_llm(@, [role |-> "ai", serial |-> serial + 1], now))]
  /\ serial' = serial + 1
  /\ now' = now + 1
  /\ commits' = commits \cup {turn}
  /\ pending' = pending \cup {[turn |-> turn, role |-> "assistant"]}
  /\ turn_pc' = IF NextNode(EntryPoint, store'[thread_id]) = END
                  THEN "idle"
                  ELSE "generating"
  /\ UNCHANGED << pc, session_metadata, video_url_to_save, interview_id,
                  thread_id, sequence_counter, turn, queue, inflight,
                  gw_interviews, gw_transcripts, gw_completed, assigned, items >>
  /\ UNCHANGED << capture_wait, save_attempts, complete_attempts, turn_errors, recording_url >>
  /\ UNCHANGED managerVars
  /\ UNCHANGED contextVars

\* llm.invoke raised: call_llm has no handler, the node wrote nothing and
\* the exception leaves the graph invocation
TurnFailed ==
  /\ turn_pc = "generating"
  /\ turn_pc' = "idle"
  /\ turn_errors' = turn_errors \cup {[turn |-> turn, kind |-> "generation"]}
  /\ UNCHANGED << pc, session_metadata, video_url_to_save, interview_id,
                  thread_id, sequence_counter, store, turn, commits, pending,
                  queue, inflight, gw_interviews, gw_transcripts, gw_completed,
                  assigned, items, now, serial >>
  /\ UNCHANGED << capture_wait, save_attempts, complete_attempts, recording_url >>
  /\ UNCHANGED managerVars
  /\ UNCHANGED contextVars

\* call_llm returned, the checkpointer raised on the write of its return
\* value: nothing is stored and the exception leaves the graph invocation
CommitFailed ==
  /\ turn_pc = "generating"
  /\ turn_pc' = "idle"
  /\ turn_errors' = turn_errors \cup {[turn |-> turn, kind |-> "commit"]}
  /\ UNCHANGED << pc, session_metadata, video_url_to_save, interview_id,
                  thread_id, sequence_counter, store, turn, commits, pending,
                  queue, inflight, gw_interviews, gw_transcripts, gw_completed,
                  assigned, items, now, serial >>
  /\ UNCHANGED << capture_wait, save_attempts, complete_attempts, recording_url >>
  /\ UNCHANGED managerVars
  /\ UNCHANGED contextVars

(***************************************************************************)
(* handle_conversation_item                                                *)
(***************************************************************************)

\* the handler task of the newest item scheduled ahead of the waiting ones
ConversationItemAdded_front(item, text) ==
  /\ item \in pending
  /\ items < MaxItems
  /\ pc # "done"
  /\ items' = items + 1
  /\ pending' = pending \ {item}
  /\ queue' = << [turn |-> item.turn, role |-> item.role, text |-> text,
                              linked |-> interview_id # NoneId, event |-> items'] >> \o queue
  /\ UNCHANGED << pc, session_metadata, video_url_to_save, interview_id,
                  thread_id, sequence_counter, store, turn, turn_pc, commits,
                  inflight, gw_interviews, gw_transcripts, gw_completed,
                  assigned, now, serial >>
  /\ UNCHANGED << capture_wait, save_attempts, complete_attempts, turn_errors, recording_url >>
  /\ UNCHANGED managerVars
  /\ UNCHANGED contextVars

\* the session emits conversation_item_added: asyncio.create_task(async_handler())
ConversationItemAdded(item, text) ==
  /\ item \in pending
  /\ items < MaxItems
  /\ pc # "done"
  /\ items' = items + 1
  /\ pending' = pending \ {item}
  /\ queue' = Append(queue, [turn |-> item.turn, role |-> item.role, text |-> text,
                              linked |-> interview_id # NoneId, event |-> items'])
  /\ UNCHANGED << pc, session_metadata, video_url_to_save, interview_id,
                  thread_id, sequence_counter, store, turn, turn_pc, commits,
                  inflight, gw_interviews, gw_transcripts, gw_completed,
                  assigned, now, serial >>
  /\ UNCHANGED << capture_wait, save_attempts, complete_attempts, turn_errors, recording_url >>
  /\ UNCHANGED managerVars
  /\ UNCHANGED contextVars

\* the drop that takes a sequence number
HandlerDrop_counts ==
  /\ queue # << >>
  /\ interview_id = NoneId \/ IsBlank(Head(queue).text)
  /\ queue' = Tail(queue)
  /\ sequence_counter' = NextSequence(sequence_counter)
  /\ UNCHANGED << pc, session_metadata, video_url_to_save, interview_id,
                  thread_id, store, turn, turn_pc, commits,
                  pending, inflight, gw_interviews, gw_transcripts,
                  gw_completed, assigned, items, now, serial >>
  /\ UNCHANGED << capture_wait, save_attempts, complete_attempts, turn_errors, recording_url >>
  /\ UNCHANGED managerVars
  /\ UNCHANGED contextVars

\* async_handler up to its first suspension: the guard, the increment, and
\* the call of save_transcript_entry with its timestamp
HandlerDrop ==
  /\ queue # << >>
  /\ interview_id = NoneId \/ IsBlank(Head(queue).text)
  /\ queue' = Tail(queue)
  /\ UNCHANGED << pc, session_metadata, video_url_to_save, interview_id,
                  thread_id, sequence_counter, store, turn, turn_pc, commits,
                  pending, inflight, gw_interviews, gw_transcripts,
                  gw_completed, assigned, items, now, serial >>
  /\ UNCHANGED << capture_wait, save_attempts, complete_attempts, turn_errors, recording_url >>
  /\ UNCHANGED managerVars
  /\ UNCHANGED contextVars

HandlerSave ==
  /\ queue # << >>
  /\ ~ (interview_id = NoneId \/ IsBlank(Head(queue).text))
  /\ queue' = Tail(queue)
  /\ sequence_counter' = NextSequence(sequence_counter)
  /\ assigned' = Append(assigned, sequence_counter')
  /\ inflight' = inflight \cup
       {[interviewId |-> interview_id,
         sequenceNumber |-> sequence_counter',
         speaker |-> SpeakerOf(Head(queue).role),
         timestamp |-> now,
         turn |-> Head(queue).turn,
         event |-> Head(queue).event,
         committed |-> Head(queue).turn \in commits,
         linked |-> Head(queue).linked]}
  /\ now' = now + 1
  /\ UNCHANGED << pc, session_metadata, video_url_to_save, interview_id,
                  thread_id, store, turn, turn_pc, commits, pending,
                  gw_interviews, gw_transcripts, gw_completed, items, serial >>
  /\ UNCHANGED << capture_wait, save_attempts, complete_attempts, turn_errors, recording_url >>
  /\ UNCHANGED managerVars
  /\ UNCHANGED contextVars

\* the entry stamped when the gateway answers
TranscriptSaved_restamped(task) ==
  /\ task \in inflight
  /\ inflight' = inflight \ {task}
  /\ gw_transcripts' = gw_transcripts \cup {[task EXCEPT !.timestamp = now]}
  /\ now' = now + 1
  /\ UNCHANGED << pc, session_metadata, video_url_to_save, interview_id,
                  thread_id, sequence_counter, store, turn, turn_pc, commits,
                  pending, queue, gw_interviews, gw_completed, assigned, items,
                  serial >>
  /\ UNCHANGED << capture_wait, save_attempts, complete_attempts, turn_errors, recording_url >>
  /\ UNCHANGED managerVars
  /\ UNCHANGED contextVars

\* the saved entry also written to the thread of the conversation
TranscriptSaved_into_state(task) ==
  /\ task \in inflight
  /\ inflight' = inflight \ {task}
  /\ gw_transcripts' = gw_transcripts \cup {task}
  /\ store' = [store EXCEPT ![thread_id].messages =
                 Append(@, [role |-> "human", serial |-> serial])]
  /\ UNCHANGED << pc, session_metadata, video_url_to_save, interview_id,
                  thread_id, sequence_counter, turn, turn_pc, commits,
                  pending, queue, gw_interviews, gw_completed, assigned, items,
                  now, serial >>
  /\ UNCHANGED << capture_wait, save_attempts, complete_attempts, turn_errors, recording_url >>
  /\ UNCHANGED managerVars
  /\ UNCHANGED contextVars

\* createTranscript answered with an id
TranscriptSaved(task) ==
  /\ task \in inflight
  /\ inflight' = inflight \ {task}
  /\ gw_transcripts' = gw_transcripts \cup {task}
  /\ UNCHANGED << pc, session_metadata, video_url_to_save, interview_id,
                  thread_id, sequence_counter, store, turn, turn_pc, commits,
                  pending, queue, gw_interviews, gw_completed, assigned, items,
                  now, serial >>
  /\ UNCHANGED << capture_wait, save_attempts, complete_attempts, turn_errors, recording_url >>
  /\ UNCHANGED managerVars
  /\ UNCHANGED contextVars

\* a failed createTranscript giving its sequence number back
TranscriptFailed_rollback(task) ==
  /\ task \in inflight
  /\ inflight' = inflight \ {task}
  /\ sequence_counter' = sequence_counter - 1
  /\ UNCHANGED << pc, session_metadata, video_url_to_save, interview_id,
                  thread_id, store, turn, turn_pc, commits,
                  pending, queue, gw_interviews, gw_transcripts, gw_completed,
                  assigned, items, now, serial >>
  /\ UNCHANGED << capture_wait, save_attempts, complete_attempts, turn_errors, recording_url >>
  /\ UNCHANGED managerVars
  /\ UNCHANGED contextVars

\* a failed createTranscript ending the graph invocation in progress
TranscriptFailed_aborts(task) ==
  /\ task \in inflight
  /\ inflight' = inflight \ {task}
  /\ turn_pc' = "idle"
  /\ UNCHANGED << pc, session_metadata, video_url_to_save, interview_id,
                  thread_id, sequence_counter, store, turn, commits,
                  pending, queue, gw_interviews, gw_transcripts, gw_completed,
                  assigned, items, now, serial >>
  /\ UNCHANGED << capture_wait, save_attempts, complete_attempts, turn_errors, recording_url >>
  /\ UNCHANGED managerVars
  /\ UNCHANGED contextVars

\* createTranscript failed (no id returned, or an exception that
\* save_transcript_entry catches): logged, nothing else
TranscriptFailed(task) ==
  /\ task \in inflight
  /\ inflight' = inflight \ {task}
  /\ UNCHANGED << pc, session_metadata, video_url_to_save, interview_id,
                  thread_id, sequence_counter, store, turn, turn_pc, commits,
                  pending, queue, gw_interviews, gw_transcripts, gw_completed,
                  assigned, items, now, serial >>
  /\ UNCHANGED << capture_wait, save_attempts, complete_attempts, turn_errors, recording_url >>
  /\ UNCHANGED managerVars
  /\ UNCHANGED contextVars

(***************************************************************************)
(* cleanup, the shutdown callback                                          *)
(***************************************************************************)
Shutdown ==
  /\ pc = "running"
  /\ pc' = "cleanup"
  /\ UNCHANGED << session_metadata, video_url_to_save, interview_id, thread_id,
                  sequence_counter, store, turn, turn_pc, commits, pending,
                  queue, inflight, gw_interviews, gw_transcripts, gw_completed,
                  assigned, items, now, serial >>
  /\ UNCHANGED << capture_wait, save_attempts, complete_attempts, turn_errors, recording_url >>
  /\ UNCHANGED managerVars
  /\ UNCHANGED contextVars

\* a failure of complete_interview reaching the handler of line 259, which
\* ends cleanup
CompleteInterview_escapes(ok) ==
  /\ pc = "cleanup"
  /\ interview_id # NoneId
  /\ gw_completed' = IF ok = "True" THEN gw_completed \cup {interview_id} ELSE gw_completed
  /\ complete_attempts' = complete_attempts \cup {interview_id}
  /\ pc' = IF ok = "True" THEN "release" ELSE "done"
  /\ UNCHANGED << session_metadata, video_url_to_save, interview_id, thread_id,
                  sequence_counter, store, turn, turn_pc, commits, pending,
                  queue, inflight, gw_interviews, gw_transcripts, assigned,
                  items, now, serial >>
  /\ UNCHANGED << capture_wait, save_attempts, turn_errors, recording_url >>
  /\ UNCHANGED managerVars
  /\ UNCHANGED contextVars

\* lines 229-234 and 259-260: complete_interview when an interview is
\* linked; on True or False the backup save is skipped and cleanup goes on
\* to the release, an exception would end cleanup in the handler of line 259
CompleteInterview(ok) ==
  /\ pc = "cleanup"
  /\ interview_id # NoneId
  /\ gw_completed' = IF ok = "True" THEN gw_completed \cup {interview_id} ELSE gw_completed
  /\ complete_attempts' = complete_attempts \cup {interview_id}
  /\ pc' = IF ok = "Raised" THEN "done" ELSE "release"
  /\ UNCHANGED << session_metadata, video_url_to_save, interview_id, thread_id,
                  sequence_counter, store, turn, turn_pc, commits, pending,
                  queue, inflight, gw_interviews, gw_transcripts, assigned,
                  items, now, serial >>
  /\ UNCHANGED << capture_wait, save_attempts, turn_errors, recording_url >>
  /\ UNCHANGED managerVars
  /\ UNCHANGED contextVars

\* the backup save without the test of interview_id
BackupSave_always ==
  /\ pc = "cleanup"
  /\ \E res \in save_video_to_backend(gw_interviews, RoomName) :
       /\ gw_interviews' = res[1]
       /\ interview_id' = IF res[2] # NoneId THEN res[2] ELSE interview_id
       /\ save_attempts' = Append(save_attempts, [phase |-> "backup", id |-> res[2], url |-> video_url_to_save])
  /\ pc' = "release"
  /\ UNCHANGED << session_metadata, video_url_to_save, thread_id,
                  sequence_counter, store, turn, turn_pc, commits, pending,
                  queue, inflight, gw_transcripts, gw_completed, assigned,
                  items, now, serial >>
  /\ UNCHANGED << capture_wait, complete_attempts, turn_errors, recording_url >>
  /\ UNCHANGED managerVars
  /\ UNCHANGED contextVars

\* lines 237-255: the backup save when no interview is linked; a None
\* result, an exception and the 10 s timeout all leave interview_id unset
BackupSave ==
  /\ pc = "cleanup"
  /\ interview_id = NoneId
  /\ \E res \in save_video_to_backend(gw_interviews, RoomName) :
       /\ gw_interviews' = res[1]
       /\ interview_id' = IF res[2] # NoneId THEN res[2] ELSE interview_id
       /\ save_attempts' = Append(save_attempts, [phase |-> "backup", id |-> res[2], url |-> video_url_to_save])
  /\ pc' = "release"
  /\ UNCHANGED << session_metadata, video_url_to_save, thread_id,
                  sequence_counter, store, turn, turn_pc, commits, pending,
                  queue, inflight, gw_transcripts, gw_completed, assigned,
                  items, now, serial >>
  /\ UNCHANGED << capture_wait, complete_attempts, turn_errors, recording_url >>
  /\ UNCHANGED managerVars
  /\ UNCHANGED contextVars

\* line 257: recording_manager.cleanup() forgets the recording
Release ==
  /\ pc = "release"
  /\ pc' = "done"
  /\ recording_url' = "None"
  /\ UNCHANGED << session_metadata, video_url_to_save, interview_id, thread_id,
                  sequence_counter, store, turn, turn_pc, commits, pending,
                  queue, inflight, gw_interviews, gw_transcripts, gw_completed,
                  assigned, items, now, serial >>
  /\ UNCHANGED << capture_wait, save_attempts, complete_attempts, turn_errors >>
  /\ UNCHANGED managerVars
  /\ UNCHANGED contextVars

Next ==
  \/ \E app \in AppDetails : GetOrCreateSession(app)
  \/ RecordingTick
  \/ RecordingTimedOut
  \/ RecordingStarted
  \/ RecordingUnavailable
  \/ SaveVideo
  \/ \E kind \in {"postgres", "memory"} : CreateWorkflow(kind)
  \/ InitState
  \/ InitStateFailed
  \/ SessionStart
  \/ RegisterCleanup
  \/ \E k \in 0..MaxInput : TurnStart(k)
  \/ TurnCommit
  \/ TurnFailed
  \/ CommitFailed
  \/ \E item \in pending, text \in {"hello", " "} : ConversationItemAdded(item, text)
  \/ HandlerDrop
  \/ HandlerSave
  \/ \E task \in inflight : TranscriptSaved(task)
  \/ \E task \in inflight : TranscriptFailed(task)
  \/ Shutdown
  \/ \E reply \in CompletionReplies : CompleteInterview(complete_interview(reply))
  \/ BackupSave
  \/ Release

Spec == Init /\ [][Next]_vars

(***************************************************************************)
(* The conversation state machine on its own: setup and turns, every       *)
(* input.  The side channel (handlers, cleanup) writes none of store,      *)
(* thread_id, session_metadata.                                            *)
(***************************************************************************)
NextStateMachine ==
  \/ \E app \in AppDetails : GetOrCreateSession(app)
  \/ RecordingTick
  \/ RecordingTimedOut
  \/ RecordingStarted
  \/ RecordingUnavailable
  \/ SaveVideo
  \/ \E kind \in {"postgres", "memory"} : CreateWorkflow(kind)
  \/ InitState
  \/ InitStateFailed
  \/ SessionStart
  \/ RegisterCleanup
  \/ \E k \in 0..MaxInput : TurnStart(k)
  \/ TurnCommit
  \/ TurnFailed
  \/ CommitFailed

SpecStateMachine == Init /\ [][NextStateMachine]_vars

\* the state machine with a graph invocation that ends: llm.invoke and the
\* checkpointer return or raise
SpecTurns ==
  /\ Init
  /\ [][NextStateMachine]_vars
  /\ WF_vars(TurnCommit \/ TurnFailed \/ CommitFailed)

(***************************************************************************)
(* The side channel on its own: linkage, conversation items, handler       *)
(* tasks, cleanup.  Turns only supply the items; what they write to the    *)
(* store is not read by any action of the side channel, so the inputs      *)
(* that only vary the stored state are fixed.                              *)
(***************************************************************************)
NextSideChannel ==
  \/ GetOrCreateSession(AppNone)
  \/ RecordingUnavailable
  \/ SaveVideo
  \/ CreateWorkflow("postgres")
  \/ InitState
  \/ SessionStart
  \/ RegisterCleanup
  \/ TurnStart(0)
  \/ TurnCommit
  \/ TurnFailed
  \/ CommitFailed
  \/ \E item \in pending, text \in {"hello", " "} : ConversationItemAdded(item, text)
  \/ HandlerDrop
  \/ HandlerSave
  \/ \E task \in inflight : TranscriptSaved(task)
  \/ \E task \in inflight : TranscriptFailed(task)
  \/ Shutdown
  \/ \E reply \in CompletionReplies : CompleteInterview(complete_interview(reply))
  \/ BackupSave
  \/ Release

SpecSideChannel == Init /\ [][NextSideChannel]_vars

(***************************************************************************)
(* The life of one session from room-join to the end of cleanup, without   *)
(* the transcript handlers.  Every await of setup and of cleanup ends:     *)
(* wait_for bounds start_recording and the backup save, the gateway calls  *)
(* answer, fail or run into the client's timeout.                          *)
(***************************************************************************)
NextLifecycle ==
  \/ GetOrCreateSession(AppNone)
  \/ RecordingTick
  \/ RecordingTimedOut
  \/ RecordingStarted
  \/ RecordingUnavailable
  \/ SaveVideo
  \/ CreateWorkflow("postgres")
  \/ InitState
  \/ InitStateFailed
  \/ SessionStart
  \/ RegisterCleanup
  \/ TurnStart(0)
  \/ TurnCommit
  \/ Shutdown
  \/ \E reply \in CompletionReplies : CompleteInterview(complete_interview(reply))
  \/ BackupSave
  \/ Release

SpecLifecycle ==
  /\ Init
  /\ [][NextLifecycle]_vars
  /\ WF_vars(RecordingTick)
  /\ WF_vars(RecordingTimedOut)
  /\ WF_vars(SaveVideo)
  /\ WF_vars(CreateWorkflow("postgres"))
  /\ WF_vars(InitState \/ InitStateFailed)
  /\ WF_vars(\E reply \in CompletionReplies : CompleteInterview(complete_interview(reply)))
  /\ WF_vars(BackupSave)
  /\ WF_vars(Release)


(***************************************************************************)
(* Room-name resolution on its own: lines 40-57 run for a room, and run    *)
(* again when another job is dispatched for the same room.                 *)
(***************************************************************************)
ResolveRoom ==
  /\ Len(resolved) < MaxResolves
  /\ resolved' = Append(resolved, ApplicationIdOf(room_id))
  /\ UNCHANGED << room_id, gateway_reply, application_details, system_prompt,
                  create_input >>
  /\ UNCHANGED sessionVars
  /\ UNCHANGED managerVars

InitResolver ==
  /\ SessionInit
  /\ gw_interviews = {}
  /\ ManagerInit
  /\ room_id \in RoomNames
  /\ resolved = << >>
  /\ gateway_reply = Unreachable
  /\ application_details = NotFetched
  /\ system_prompt = NotRun
  /\ create_input = NotSent

NextResolver ==
  \/ ResolveRoom
  \/ \E app \in AppDetails : GetOrCreateSession(app)

SpecResolver == InitResolver /\ [][NextResolver]_vars

\* create_interview_with_video, lines 186-205: the variables of the
\* mutation, with the application id read off the room name
CreateInterviewWithVideo ==
  /\ create_input = NotSent
  /\ create_input' = [applicationId |-> extract_interview_id_from_room_name(room_id),
                      roomId |-> room_id]
  /\ UNCHANGED << room_id, resolved, gateway_reply, application_details,
                  system_prompt >>
  /\ UNCHANGED sessionVars
  /\ UNCHANGED managerVars

\* the two places that read the application id off the room name
NextExtraction ==
  \/ ResolveRoom
  \/ CreateInterviewWithVideo

SpecExtraction == InitResolver /\ [][NextExtraction]_vars

(***************************************************************************)
(* The application context: the replies the gateway can give to the        *)
(* GetApplicationDetails query, the fetch and the prompt built from it.    *)
(***************************************************************************)
\* a key the reply does not have
Absent == [t |-> "absent"]

\* the dict of the keys that are present
MkDict(fields) ==
  Dict([k \in {key \in DOMAIN fields : fields[key] # Absent} |-> fields[k]])

Companies ==
  {Absent, Null, Dict(<< >>), MkDict([name |-> Null]), MkDict([name |-> Str("acme")])}

Jobs ==
  {Absent, Null} \cup
  { MkDict([title |-> Str("engineer"), interviewPrompt |-> p,
            interviewLanguage |-> l, company |-> c]) :
      p \in {Absent, Null, Str(" "), Str("prompt")},
      l \in {Absent, Null, Str("Arabic"), Str("english"), Str("french")},
      c \in Companies }

FullJob ==
  MkDict([title |-> Str("engineer"), interviewPrompt |-> Str("prompt"),
          interviewLanguage |-> Str("Arabic"),
          company |-> MkDict([name |-> Str("acme")])])

Items(n) == List([i \in 1..n |-> i])

FullResults ==
  MkDict([experience_summary |-> Str("summary"), skills_matched |-> Items(1),
          skills_missing |-> Items(1), strengths |-> Items(1),
          concerns |-> Items(1), recommendation |-> Str("hire")])

\* every sub-field of the analysis absent, null or set
SparseResults ==
  { MkDict([experience_summary |-> e, skills_matched |-> m,
            skills_missing |-> g, strengths |-> h, concerns |-> c,
            recommendation |-> r]) :
      e \in {Absent, Null, Str("summary")}, m \in {Absent, Null, Items(1)},
      g \in {Absent, Null, Items(1)}, h \in {Absent, Null, Items(1)},
      c \in {Absent, Null, Items(1)}, r \in {Absent, Null, Str("hire")} }

\* the lists of the analysis of every length
LongResults ==
  { MkDict([skills_matched |-> Items(m), skills_missing |-> Items(g),
            strengths |-> Items(h), concerns |-> Items(c)]) :
      m \in 0..MaxList, g \in 0..MaxList, h \in 0..MaxList, c \in 0..MaxList }

Applications ==
  { MkDict([applicantName |-> Str("candidate"), job |-> j, cvScore |-> sc,
            cvAnalysisResults |-> res]) :
      j \in Jobs, sc \in {Absent, Null, Num(85)},
      res \in {Absent, Null, Str("text"), FullResults} }
  \cup
  { MkDict([applicantName |-> Str("candidate"), job |-> FullJob,
            cvScore |-> Num(85), cvAnalysisResults |-> res]) :
      res \in SparseResults \cup LongResults }

FullApplication ==
  MkDict([applicantName |-> Str("candidate"), job |-> FullJob,
          cvScore |-> Num(85), cvAnalysisResults |-> FullResults])

Response(status, body) == [tag |-> "response", status |-> status, body |-> body]

Data(application) == [k \in {"data"} |-> MkDict([application |-> application])]

\* unreachable, a status other than 200, GraphQL errors, no such application
FailedReplies ==
  { Unreachable,
    Response(500, Data(FullApplication)),
    Response(500, << >>),
    Response(200, [k \in {"errors", "data"} |-> Null]),
    Response(200, [k \in {"errors"} |-> List(<< 1 >>)]),
    Response(200, Data(Null)),
    Response(200, [k \in {"data"} |-> Null]) }

Replies == FailedReplies \cup { Response(200, Data(app)) : app \in Applications }

\* get_or_create_session with an application id: the details fetched from
\* the gateway, nothing on a failure
FetchApplication ==
  /\ application_details = NotFetched
  /\ application_details' =
       IF ApplicationIdOf(room_id) # NoApplicationId
         THEN get_application_details(execute_query(gateway_reply))
         ELSE Null
  /\ UNCHANGED << room_id, resolved, gateway_reply, system_prompt, create_input >>
  /\ UNCHANGED sessionVars
  /\ UNCHANGED managerVars

\* call_llm up to the generation call of line 98
AssemblePrompt ==
  /\ application_details # NotFetched
  /\ system_prompt = NotRun
  /\ system_prompt' = SystemPromptOf(application_details)
  /\ UNCHANGED << room_id, resolved, gateway_reply, application_details,
                  create_input >>
  /\ UNCHANGED sessionVars
  /\ UNCHANGED managerVars

InitContext ==
  /\ SessionInit
  /\ gw_interviews = {}
  /\ ManagerInit
  /\ room_id = DefaultRoom
  /\ resolved = << >>
  /\ gateway_reply \in Replies
  /\ application_details = NotFetched
  /\ system_prompt = NotRun
  /\ create_input = NotSent

NextContext ==
  \/ FetchApplication
  \/ AssemblePrompt

SpecContext == InitContext /\ [][NextContext]_vars

(***************************************************************************)
(* InterviewSessionManager: the process-wide checkpointer, shared by the   *)
(* sessions of one process.  get_checkpointer suspends at __aenter__ and   *)
(* at setup(); close_session suspends at __aexit__.                        *)
(***************************************************************************)

\* what a call hands back, and whether that saver was usable at that moment
Returned(c, saver, done) ==
  [caller |-> c, saver |-> saver,
   ready |-> saver[1] = "memory" \/ saver \in done]

\* line 49 false: the checkpointer is already there, line 85 returns it
GetCheckpointerCached(c) ==
  /\ callers[c].pc = "idle"
  /\ calls < MaxCalls
  /\ checkpointer # NoCheckpointer
  /\ calls' = calls + 1
  /\ returned' = returned \cup {Returned(c, checkpointer, setup_done)}
  /\ UNCHANGED << checkpointer, checkpointer_context, callers, probes,
                  setup_done, closes >>
  /\ UNCHANGED sessionVars
  /\ UNCHANGED contextVars

\* lines 49-64: no checkpointer, the probe connects, __aenter__ is awaited
ProbeConnected(c) ==
  /\ callers[c].pc = "idle"
  /\ calls < MaxCalls
  /\ checkpointer = NoCheckpointer
  /\ calls' = calls + 1
  /\ probes' = probes + 1
  /\ callers' = [callers EXCEPT ![c] = [pc |-> "aenter", ctx |-> probes + 1]]
  /\ UNCHANGED << checkpointer, checkpointer_context, setup_done, returned,
                  closes >>
  /\ UNCHANGED sessionVars
  /\ UNCHANGED contextVars

\* lines 49-56, 74-85: no checkpointer, the probe raises, MemorySaver
ProbeFailed(c) ==
  /\ callers[c].pc = "idle"
  /\ calls < MaxCalls
  /\ checkpointer = NoCheckpointer
  /\ calls' = calls + 1
  /\ probes' = probes + 1
  /\ checkpointer' = Saver("memory", probes + 1)
  /\ checkpointer_context' = NoCheckpointer
  /\ returned' = returned \cup {Returned(c, checkpointer', setup_done)}
  /\ UNCHANGED << callers, setup_done, closes >>
  /\ UNCHANGED sessionVars
  /\ UNCHANGED contextVars

\* lines 64-67: __aenter__ returned the saver, setup() is awaited
AenterReturned(c) ==
  /\ callers[c].pc = "aenter"
  /\ checkpointer' = Saver("postgres", callers[c].ctx)
  /\ callers' = [callers EXCEPT ![c].pc = "setup"]
  /\ UNCHANGED << checkpointer_context, probes, setup_done, returned, calls,
                  closes >>
  /\ UNCHANGED sessionVars
  /\ UNCHANGED contextVars

\* lines 67-72, 85: setup() returned; the context is kept and whatever
\* self._checkpointer holds now is returned
SetupReturned(c) ==
  /\ callers[c].pc = "setup"
  /\ setup_done' = setup_done \cup {Saver("postgres", callers[c].ctx)}
  /\ checkpointer_context' = Saver("context", callers[c].ctx)
  /\ returned' = returned \cup {Returned(c, checkpointer, setup_done')}
  /\ callers' = [callers EXCEPT ![c] = [pc |-> "idle", ctx |-> 0]]
  /\ UNCHANGED << checkpointer, probes, calls, closes >>
  /\ UNCHANGED sessionVars
  /\ UNCHANGED contextVars

\* lines 74-85: __aenter__ or setup() raised, MemorySaver
SaverFailed(c) ==
  /\ callers[c].pc \in {"aenter", "setup"}
  /\ checkpointer' = Saver("memory", callers[c].ctx)
  /\ checkpointer_context' = NoCheckpointer
  /\ returned' = returned \cup {Returned(c, checkpointer', setup_done)}
  /\ callers' = [callers EXCEPT ![c] = [pc |-> "idle", ctx |-> 0]]
  /\ UNCHANGED << probes, setup_done, calls, closes >>
  /\ UNCHANGED sessionVars
  /\ UNCHANGED contextVars

\* close_session, lines 141-143: both set, __aexit__ is awaited
CloseSessionBegin(c) ==
  /\ callers[c].pc = "idle"
  /\ calls < MaxCalls
  /\ checkpointer # NoCheckpointer /\ checkpointer_context # NoCheckpointer
  /\ calls' = calls + 1
  /\ callers' = [callers EXCEPT ![c].pc = "closing"]
  /\ UNCHANGED << checkpointer, checkpointer_context, probes, setup_done,
                  returned, closes >>
  /\ UNCHANGED sessionVars
  /\ UNCHANGED contextVars

\* close_session, lines 144-149: __aexit__ returned or raised, the finally
\* clause forgets the checkpointer
CloseSessionEnd(c) ==
  /\ callers[c].pc = "closing"
  /\ checkpointer' = NoCheckpointer
  /\ checkpointer_context' = NoCheckpointer
  /\ closes' = closes + 1
  /\ callers' = [callers EXCEPT ![c].pc = "idle"]
  /\ UNCHANGED << probes, setup_done, returned, calls >>
  /\ UNCHANGED sessionVars
  /\ UNCHANGED contextVars

\* close_session, line 141 false: nothing to close
CloseSessionSkipped(c) ==
  /\ callers[c].pc = "idle"
  /\ calls < MaxCalls
  /\ ~ (checkpointer # NoCheckpointer /\ checkpointer_context # NoCheckpointer)
  /\ calls' = calls + 1
  /\ UNCHANGED << checkpointer, checkpointer_context, callers, probes,
                  setup_done, returned, closes >>
  /\ UNCHANGED sessionVars
  /\ UNCHANGED contextVars

NextManager ==
  \E c \in Callers :
    \/ GetCheckpointerCached(c)
    \/ ProbeConnected(c)
    \/ ProbeFailed(c)
    \/ AenterReturned(c)
    \/ SetupReturned(c)
    \/ SaverFailed(c)
    \/ CloseSessionBegin(c)
    \/ CloseSessionEnd(c)
    \/ CloseSessionSkipped(c)

SpecManager == Init /\ [][NextManager]_vars

\* The session manager used by one session at a time: each call returns
\* before the next one starts.
NextManagerSequential ==
  \/ GetCheckpointerCached(1)
  \/ ProbeConnected(1)
  \/ ProbeFailed(1)
  \/ AenterReturned(1)
  \/ SetupReturned(1)
  \/ SaverFailed(1)
  \/ CloseSessionBegin(1)
  \/ CloseSessionEnd(1)
  \/ CloseSessionSkipped(1)

SpecManagerSequential == Init /\ [][NextManagerSequential]_vars


(***************************************************************************)
(* Claims.                                                                 *)
(***************************************************************************)
RECURSIVE SumOver(_, _)
SumOver(f, S) ==
  IF S = {} THEN 0
  ELSE LET x == CHOOSE y \in S : TRUE IN f[x] + SumOver(f, S \ {x})

\* messages stored under all threads together
TotalStored == SumOver([t \in ThreadIds |-> Len(store[t].messages)], ThreadIds)

IsPrefix(a, b) == Len(a) <= Len(b) /\ SubSeq(b, 1, Len(a)) = a

StrictlyIncreasing(seq) ==
  \A i, j \in 1..Len(seq) : i < j => seq[i] < seq[j]

SetupPcs == {"session", "record", "save", "workflow", "init"}

\* C1: every committed turn appends exactly one assistant message to what
\* is stored under the thread; stored lists only grow at their end, and
\* the stored messages number exactly the messages appended so far.
C1_TurnAppendsOne ==
  [][ /\ \A t \in ThreadIds : IsPrefix(store[t].messages, store'[t].messages)
      /\ TotalStored' = serial'
      /\ commits' # commits =>
           /\ Len(store'[thread_id].messages) = Len(store[thread_id].messages) + 1
           /\ store'[thread_id].messages[Len(store'[thread_id].messages)].role = "ai"
           /\ store'[thread_id].messages[Len(store'[thread_id].messages)].serial = serial' ]_vars

C1_Witness ==
  /\ Cardinality(commits) = 2
  /\ Len(store[thread_id].messages) >= 3
  /\ StrictlyIncreasing([i \in 1..Len(store[thread_id].messages) |->
                           store[thread_id].messages[i].serial])

\* C2: once the session runs turns, every scalar field stored under the
\* thread other than last_updated keeps its value through every step; the
\* turn leaves current_question at 0 and interview_status at active.
C2_ScalarsPreserved ==
  [][ pc \notin SetupPcs =>
        \A f \in ScalarFields \ {"last_updated"} :
           store[thread_id][f] # Missing => store'[thread_id][f] = store[thread_id][f] ]_vars

C2_Witness ==
  /\ Cardinality(commits) = 2
  /\ store[thread_id].interview_language = Some("arabic")
  /\ store[thread_id].participant_name = Some("Sam")
  /\ store[thread_id].current_question = Some(0)
  /\ store[thread_id].interview_status = Some("active")
  /\ store[thread_id].last_updated # store[thread_id].start_time

\* C3: every transcript append is called only after the turn of its
\* utterance has been committed.
C3_CommitBeforeTranscript ==
  \A task \in inflight \cup gw_transcripts : task.committed

\* C4: the gateway holds at most one record for the room, however often
\* save was called.
C4_OneRecordPerRoom ==
  Cardinality({r \in gw_interviews : r.roomId = RoomName}) <= 1

\* C5: no two utterance notifications carry the same sequence number, and
\* the numbers grow strictly in the order they were assigned.
C5_SequenceUnique ==
  /\ StrictlyIncreasing(assigned)
  /\ \A a, b \in inflight \cup gw_transcripts :
       a # b => a.sequenceNumber # b.sequenceNumber

C5_Witness ==
  /\ Cardinality(inflight) >= 2
  /\ Len(assigned) >= 2

\* C6: whenever an interview id is linked, it is the thread id the
\* conversation state is stored under.
C6_LinkedIdIsThreadId ==
  (interview_id # NoneId /\ thread_id # Unbound) => thread_id = interview_id

\* C7: the session's thread id starts as the session id, is replaced only
\* by an id the gateway assigned, and once replaced never changes again.
C7_ThreadIdReplacedOnce ==
  /\ [](pc \in {"session", "record", "save", "workflow"} =>
          session_metadata.session_id = SessionId)
  /\ [](session_metadata.session_id # SessionId =>
          session_metadata.session_id \in {r.id : r \in gw_interviews})
  /\ [](pc \notin {"session", "record", "save", "workflow"} =>
          session_metadata.session_id = thread_id)
  /\ [][ /\ session_metadata.session_id # SessionId =>
              session_metadata'.session_id = session_metadata.session_id
         /\ thread_id # Unbound => thread_id' = thread_id ]_vars

C7_Witness ==
  /\ pc = "done"
  /\ thread_id \in RecordIds
  /\ session_metadata.session_id = thread_id

\* C8: the backend is probed once, and every get_checkpointer returns a
\* saver of the kind chosen at first use.
C8_SelectedOnce ==
  /\ probes <= 1
  /\ \A a, b \in returned : a.saver[1] = b.saver[1]

\* C9: while no connection has been closed, get_checkpointer initializes
\* one backend only and hands every caller the same, ready saver.
C9_GuardedInit ==
  closes = 0 =>
    /\ probes <= 1
    /\ \A a, b \in returned : a.saver = b.saver
    /\ \A a \in returned : a.ready

\* C10: the initial write leaves a thread that already has state as it is.
C10_InitNoOverwrite ==
  [][ (pc = "init" /\ store[thread_id] # EmptyState) =>
        store'[thread_id] = store[thread_id] ]_vars

\* C11: the wait for start_recording never exceeds the timeout; when the
\* timeout runs out with start_recording still suspended, setup goes on
\* with the generated url to the save of the url and to the initial state.
C11_CaptureBounded ==
  /\ [](pc = "record" => capture_wait <= CaptureTimeout)
  /\ [](capture_wait = CaptureTimeout /\ pc # "record" =>
          video_url_to_save = "generated")
  /\ (pc = "record") ~> (pc = "save")
  /\ (pc = "record" /\ capture_wait = CaptureTimeout) ~>
       (pc = "start" /\ Len(save_attempts) = 1 /\ capture_wait = CaptureTimeout)

C11_Witness ==
  /\ pc = "start"
  /\ capture_wait = CaptureTimeout
  /\ video_url_to_save = "generated"
  /\ Len(save_attempts) = 1

\* C12: a session saves the url at setup and, only if that failed and
\* nothing is linked, once more in cleanup: never more than two attempts,
\* the second one only in cleanup; when both fail nothing is linked.
C12_OneBackup ==
  /\ Len(save_attempts) <= 2
  /\ Len(save_attempts) >= 1 => save_attempts[1].phase = "setup"
  /\ Len(save_attempts) = 2 =>
       /\ save_attempts[2].phase = "backup"
       /\ save_attempts[1].id = NoneId
       /\ pc \in {"release", "done"}
  /\ (pc \in {"release", "done"} /\ save_attempts[1].id = NoneId) =>
       Len(save_attempts) = 2
  /\ (Len(save_attempts) = 2 /\ save_attempts[2].id = NoneId) =>
       interview_id = NoneId

C12_Witness ==
  /\ pc = "done"
  /\ Len(save_attempts) = 2
  /\ save_attempts[1].id = NoneId
  /\ save_attempts[2].id = NoneId
  /\ interview_id = NoneId

\* C13: when cleanup has ended with an interview linked, complete_interview
\* has been called for that interview.
C13_LinkedIsCompleted ==
  (pc = "done" /\ interview_id # NoneId) => interview_id \in complete_attempts

\* C14: whatever the completion notice and the backup save answer, cleanup
\* goes on to the release of the recording manager and ends.
C14_TeardownIsolated ==
  /\ (pc = "cleanup") ~> (pc = "done")
  /\ [][ /\ (pc = "cleanup" /\ pc' # pc) => pc' = "release"
         /\ (pc = "release" /\ pc' # pc) => pc' = "done" ]_vars

C14_Witness ==
  /\ pc = "done"
  /\ \/ complete_attempts # {} /\ gw_completed = {}
     \/ Len(save_attempts) = 2 /\ save_attempts[2].id = NoneId

\* C15: when the save failed at setup and the backup save in cleanup
\* succeeded, an interview is linked, the gateway holds no transcript entry
\* of an item announced before the link, and the entries it holds carry
\* different sequence numbers.
C15_BackupLinkScenario ==
  (/\ Len(save_attempts) = 2
   /\ save_attempts[1].id = NoneId
   /\ save_attempts[2].id # NoneId) =>
     /\ interview_id = save_attempts[2].id
     /\ \A e \in gw_transcripts : e.linked /\ e.interviewId = interview_id
     /\ \A a, b \in gw_transcripts : a # b => a.sequenceNumber # b.sequenceNumber

\* C16: no transcript append is called without an interview id, and none
\* for an item that was announced while no interview was linked.
C16_DroppedWhileUnlinked ==
  \A task \in inflight \cup gw_transcripts :
     task.interviewId # NoneId /\ task.linked

\* sequence numbers of the appends that are under way or stored
LiveNumbers == {t.sequenceNumber : t \in inflight \cup gw_transcripts}

\* C17: sequence_counter never decreases; a failed append leaves it as it
\* is, and every number handed out is larger than the counter was before,
\* whatever became of the appends that carried the earlier numbers.
C17_CounterNeverRolledBack ==
  /\ [](\A i \in 1..Len(assigned) : assigned[i] <= sequence_counter)
  /\ [][ /\ sequence_counter' >= sequence_counter
         /\ (inflight' # inflight /\ assigned' = assigned) =>
              sequence_counter' = sequence_counter
         /\ assigned' # assigned =>
              /\ assigned'[Len(assigned')] = sequence_counter'
              /\ sequence_counter' > sequence_counter ]_vars

C17_Witness ==
  /\ Len(assigned) = 2
  /\ assigned[1] \notin LiveNumbers
  /\ assigned[2] \in {t.sequenceNumber : t \in gw_transcripts}
  /\ gw_transcripts # {}
  /\ assigned[2] > assigned[1]

\* C18: a step in which start_recording, the save of the url or a
\* transcript append fails changes nothing of the turn in progress, of the
\* stored state, or of the items and handler tasks still to be handled,
\* and does not end the session.
C18_FailuresAbsorbed ==
  [][ ( \/ pc = "record" /\ pc' = "save" /\ video_url_to_save' = "generated"
        \/ /\ Len(save_attempts') = Len(save_attempts) + 1
           /\ save_attempts'[Len(save_attempts')].id = NoneId
        \/ inflight' # inflight /\ gw_transcripts' = gw_transcripts
                               /\ assigned' = assigned ) =>
        /\ turn_pc' = turn_pc /\ turn' = turn /\ commits' = commits
        /\ turn_errors' = turn_errors /\ store' = store
        /\ pending' = pending /\ queue' = queue
        /\ pc' \in {"save", "workflow", "release"} \/ pc' = pc ]_vars

C18_Witness ==
  /\ video_url_to_save = "generated"
  /\ Len(assigned) = 2
  /\ assigned[1] \notin LiveNumbers
  /\ \E t \in gw_transcripts : t.sequenceNumber = assigned[2] /\ t.turn = 2
  /\ commits = {1, 2}

\* C19: no transcript append is called for an utterance of a turn whose
\* commit failed.
C19_NoSideEffectAfterCommitFailure ==
  \A e \in turn_errors :
     e.kind = "commit" =>
       \A task \in inflight \cup gw_transcripts : task.turn # e.turn

\* C20: every turn whose generation failed has a committed delta, the
\* place where the error would be recorded.
C20_ErrorRecorded ==
  \A e \in turn_errors : e.kind = "generation" => e.turn \in commits

HexChars == {"a", "b", "1"}

\* the 36 characters after the prefix have the shape 8-4-4-4-12
UuidAfterPrefix(room) ==
  /\ StartsWith(room, InterviewPrefix)
  /\ Len(room) >= 46
  /\ \A i \in 1..36 :
       IF i \in {9, 14, 19, 24} THEN room[10 + i] = "-"
                                ELSE room[10 + i] \in HexChars

\* interview-<uuid>-<suffix>
RoomMatches(room) ==
  /\ UuidAfterPrefix(room)
  /\ Len(room) >= 47
  /\ room[47] = "-"

\* C22: for a room name interview-<uuid>-<suffix> the application id
\* resolved is the 36 characters of the uuid, whatever the suffix.
C22_UuidExtracted ==
  \A i \in 1..Len(resolved) :
     RoomMatches(room_id) => resolved[i] = Some(SubSeq(room_id, 11, 46))

C22_Witness ==
  /\ resolved # << >>
  /\ RoomMatches(room_id)
  /\ Len(room_id) > 47
  /\ resolved[1] = Some(SubSeq(room_id, 11, 46))

\* C23: for a room name whose five groups after the prefix are no uuid of
\* shape 8-4-4-4-12 (or that lacks the prefix) no application id is
\* resolved.
C23_NonMatchingIsNone ==
  \A i \in 1..Len(resolved) :
     ~ (UuidAfterPrefix(room_id) /\ (Len(room_id) = 46 \/ room_id[47] = "-")) =>
        resolved[i] = NoApplicationId

C21_EndStatusCommitted ==
  pc = "done" =>
    store[thread_id].interview_status \in {Some("completed"), Some("terminated")}

\* C24: every save carries a url; once start_recording is over the url to
\* save is the one start_recording returned, and the generated one when
\* it returned none, raised or timed out.
C24_UrlAlwaysExists ==
  /\ \A i \in 1..Len(save_attempts) :
       /\ save_attempts[i].url \in {"generated", "livekit"}
       /\ save_attempts[i].url = video_url_to_save
  /\ pc \notin {"session", "record", "done"} =>
       video_url_to_save =
         (IF recording_url # "None" THEN recording_url ELSE "generated")

C24_Witness ==
  /\ Len(save_attempts) = 2
  /\ capture_wait = CaptureTimeout
  /\ recording_url = "None"
  /\ save_attempts[1].url = "generated"
  /\ save_attempts[2].url = "generated"


(***************************************************************************)
(* Claims about the application context.                                   *)
(***************************************************************************)
PromptBuilt == system_prompt # NotRun /\ system_prompt # Raised

\* C25: the assembly of the system prompt never raises because an optional
\* attribute of the application context is missing, absent or null: the
\* turn always gets to the generation call with a prompt.
C25_AssemblyNeverRaises == system_prompt # Raised

\* C26: when the fetch of the application context fails (gateway
\* unreachable, status other than 200, GraphQL errors, no such application)
\* the session goes on with an empty context and the turn is generated
\* with the default prompt.
C26_FailedFetchRunsOnDefaults ==
  gateway_reply \in FailedReplies =>
    /\ application_details \in {NotFetched, Null}
    /\ system_prompt \in {NotRun, DefaultPrompt}

C26_Witness ==
  /\ gateway_reply \in FailedReplies
  /\ gateway_reply # Unreachable
  /\ gateway_reply.status = 500
  /\ DOMAIN gateway_reply.body # {}
  /\ application_details = Null
  /\ system_prompt = DefaultPrompt

SourceList(key) == application_details.d["cvAnalysisResults"].d[key]

FirstOf(part, key, cap) ==
  part # NoPart =>
    /\ Len(part.l) <= cap
    /\ part.l = SubSeq(SourceList(key).l, 1, Len(part.l))

\* C30: the CV summary of the system prompt holds at most 8 matched skills,
\* 6 missing skills, 4 strengths and 4 concerns, each the first elements of
\* its list in order, whatever the lengths of the lists.
C30_SlicesBounded ==
  PromptBuilt =>
    /\ FirstOf(system_prompt.cv.matched, "skills_matched", 8)
    /\ FirstOf(system_prompt.cv.missing, "skills_missing", 6)
    /\ FirstOf(system_prompt.cv.strengths, "strengths", 4)
    /\ FirstOf(system_prompt.cv.concerns, "concerns", 4)

C30_Witness ==
  /\ PromptBuilt
  /\ system_prompt.cv.matched # NoPart
  /\ system_prompt.cv.missing # NoPart
  /\ system_prompt.cv.strengths # NoPart
  /\ system_prompt.cv.concerns # NoPart
  /\ Len(SourceList("skills_matched").l) > 8
  /\ Len(SourceList("skills_missing").l) > 6
  /\ Len(SourceList("strengths").l) > 4
  /\ Len(SourceList("concerns").l) > 4
  /\ Len(system_prompt.cv.matched.l) = 8
  /\ Len(system_prompt.cv.missing.l) = 6
  /\ Len(system_prompt.cv.strengths.l) = 4
  /\ Len(system_prompt.cv.concerns.l) = 4

\* C28: the completion notice is best-effort: when the gateway does not
\* confirm it, complete_interview answers False, cleanup goes on to the
\* release of the recording manager and ends.
C28_CompletionBestEffort ==
  /\ [][ (complete_attempts' # complete_attempts /\ gw_completed' = gw_completed)
           => pc' = "release" ]_vars
  /\ (pc = "release" /\ complete_attempts # {} /\ gw_completed = {})
       ~> (pc = "done" /\ recording_url = "None")

C28_Witness ==
  /\ pc = "done"
  /\ interview_id \in complete_attempts
  /\ interview_id \notin gw_completed
  /\ recording_url = "None"

RecordingFields == << video_url_to_save, interview_id, recording_url >>

GatewayAndCapture ==
  << gw_interviews, gw_transcripts, gw_completed, recording_url, interview_id,
     sequence_counter, inflight >>

\* C29: a step of the side channel (capture start, transcript save, backup
\* save, completion notice) leaves the persisted conversation state as it
\* is, and a step that writes the conversation state leaves the url, the
\* recording and the linked interview id as they are.
C29_SideChannelFrame ==
  [][ /\ GatewayAndCapture' # GatewayAndCapture => store' = store
      /\ store' # store => RecordingFields' = RecordingFields ]_vars

C29_Witness ==
  /\ gw_transcripts # {}
  /\ gw_completed # {}
  /\ commits # {}
  /\ pc = "done"

\* the interview language the job is configured with
ConfiguredLanguage == InterviewLanguageOf(application_details.d["job"]).s

\* C31: when the configured interview language is not english, the system
\* prompt ends with a directive that enforces that language, with the
\* supplied template and with the generic one.
C31_DirectiveForNonDefault ==
  (PromptBuilt /\ system_prompt.base \in {"custom", "generic"}
     /\ ConfiguredLanguage # "english")
    => system_prompt.directive = ConfiguredLanguage

\* C33: a turn whose generation call returns makes that one call, commits
\* once and ends: the graph runs the llm node once and goes to END, and
\* every turn that was started comes to its end.
C33_OneGenerationPerTurn ==
  /\ [][ (turn_pc = "generating" /\ serial' # serial) =>
           /\ turn_pc' = "idle"
           /\ turn \notin commits
           /\ commits' = commits \cup {turn} ]_vars
  /\ (turn_pc = "generating") ~> (turn_pc = "idle")

C33_Witness ==
  /\ turn = MaxTurns
  /\ turn_pc = "idle"
  /\ commits = 1..MaxTurns

\* C34: the k-th transcript append attempted in the session carries the
\* sequence number k, and an item dropped because no interview is linked or
\* because its text is blank takes no number.
C34_KthAppendCarriesK ==
  /\ [](\A k \in 1..Len(assigned) : assigned[k] = k)
  /\ [](sequence_counter = Len(assigned))
  /\ [][ (Len(queue') < Len(queue) /\ inflight' = inflight) =>
           sequence_counter' = sequence_counter ]_vars

C34_Witness ==
  /\ items = 2
  /\ queue = << >>
  /\ assigned = << 1 >>
  /\ \E task \in inflight \cup gw_transcripts :
       task.sequenceNumber = 1 /\ task.turn = 2

\* C35: sequence numbers follow the order of the conversation-item events,
\* across speakers: of two appends of the session, the one whose event came
\* first carries the smaller number, however the gateway calls interleave.
C35_SequenceFollowsEvents ==
  \A a, b \in inflight \cup gw_transcripts :
     a.event < b.event => a.sequenceNumber < b.sequenceNumber

C35_Witness ==
  \E a, b \in gw_transcripts :
     /\ a.event < b.event
     /\ a.speaker # b.speaker
     /\ a.sequenceNumber < b.sequenceNumber

\* C36: within a session the timestamps of the transcript entries do not
\* decrease as the sequence numbers grow: the timestamp is read in the step
\* that assigns the number.
C36_TimestampsFollowSequence ==
  \A a, b \in inflight \cup gw_transcripts :
     a.sequenceNumber < b.sequenceNumber => a.timestamp <= b.timestamp

C36_Witness ==
  \E a, b \in gw_transcripts :
     /\ a.sequenceNumber < b.sequenceNumber
     /\ a.timestamp < b.timestamp
     /\ a.turn # b.turn

\* C37: the interview id linked to the session changes at most once, from
\* unset to an id the gateway assigned, and never afterwards; every
\* transcript append and the completion notice of the session carry it.
C37_LinkedIdSetOnce ==
  /\ [][ /\ interview_id # NoneId => interview_id' = interview_id
         /\ interview_id' # interview_id =>
              interview_id' \in {r.id : r \in gw_interviews'} ]_vars
  /\ [](\A task \in inflight \cup gw_transcripts : task.interviewId = interview_id)
  /\ [](complete_attempts \subseteq {interview_id})
  /\ [](gw_completed \subseteq complete_attempts)

C37_Witness ==
  /\ pc = "done"
  /\ gw_transcripts # {}
  /\ Len(save_attempts) = 2
  /\ save_attempts[1].id = NoneId
  /\ interview_id = save_attempts[2].id

\* C38: once the session has joined the room, the session_id stored under
\* its thread is the thread id, and every turn keeps it so, also when the
\* initial write failed.
C38_SessionIdIsThreadKey ==
  (pc \notin SetupPcs /\ store[thread_id].session_id # Missing) =>
     store[thread_id].session_id = Some(thread_id)

\* C39: the application id sent to the gateway when the interview is
\* created is the application id resolved from the same room name when the
\* session joined, for every room name.
C39_ExtractionsAgree ==
  create_input # NotSent =>
    \A i \in 1..Len(resolved) : Some(create_input.applicationId) = resolved[i]

=============================================================================
